---- MODULE Spec2Model ----
(***************************************************************************)
(* SWCClient (chapter7/sdk/src/swcpy/swc_client.py): the constructor, the  *)
(* base call operation call_api and the retry-wrapped path get_url that    *)
(* the constructor builds with backoff.on_exception.                       *)
(*                                                                         *)
(* Strings that the code inspects character by character (the configured   *)
(* bulk file format) are sequences of one-character strings; strings the   *)
(* code only concatenates (file names) are sequences of tokens.  Time is   *)
(* counted in ticks, TicksPerSec ticks to the second.                      *)
(*                                                                         *)
(* httpx and backoff are libraries: client.get returns a Response for      *)
(* every completed exchange whatever its status and raises a RequestError  *)
(* when the exchange does not complete; Response.json raises a             *)
(* JSONDecodeError on a body that is not JSON; backoff's retry loop is     *)
(* the one of backoff._sync.retry_exception.                               *)
(*                                                                         *)
(* Lines 112-128 of the source, the body of call_api, are indented one     *)
(* level short of the def line; they are read here as the method's body.   *)
(***************************************************************************)
EXTENDS Integers, Sequences, FiniteSets, TLC

\* ---------------------------------------------------------------- bounds
\* ticks per second of the model's clock
TicksPerSec == 2
\* the largest configured swc_backoff_max_time, in seconds
MaxT == 5
\* the longest one HTTP exchange takes, in ticks
MaxDur == 1

\* ------------------------------------------------------- configuration
Formats ==
    { <<"p","a","r","q","u","e","t">>,
      <<"P","a","r","q","u","e","t">>,
      <<"P","A","R","Q","U","E","T">>,
      <<"c","s","v">>,
      <<"p","a","r","q","u","e","t","s">> }

\* str.lower() on one character
LowerChar(c) ==
    CASE c = "P" -> "p" [] c = "A" -> "a" [] c = "R" -> "r"
      [] c = "Q" -> "q" [] c = "U" -> "u" [] c = "E" -> "e"
      [] c = "T" -> "t" [] c = "C" -> "c" [] c = "S" -> "s"
      [] c = "V" -> "v" [] OTHER -> c

\* str.lower()
Lower(s) == [i \in 1..Len(s) |-> LowerChar(s[i])]

PARQUET == <<"p","a","r","q","u","e","t">>

\* the dictionary literal of __init__, each name one token
BaseNames ==
    [ players      |-> <<"player_data">>,
      leagues      |-> <<"league_data">>,
      performances |-> <<"performance_data">>,
      teams        |-> <<"team_data">>,
      team_players |-> <<"team_player_data">> ]

\* a plausible slip: the format compared without lower()
BulkFileNamesCaseSensitive(fmt) ==
    IF fmt = PARQUET
    THEN [key \in DOMAIN BaseNames |-> BaseNames[key] \o <<".parquet">>]
    ELSE [key \in DOMAIN BaseNames |-> BaseNames[key] \o <<".csv">>]

\* __init__: the two dict comprehensions that append the extension
BulkFileNames(fmt) ==
    IF Lower(fmt) = PARQUET
    THEN [key \in DOMAIN BaseNames |-> BaseNames[key] \o <<".parquet">>]
    ELSE [key \in DOMAIN BaseNames |-> BaseNames[key] \o <<".csv">>]

\* __init__: self.get_url is assigned only inside `if self.backoff:`
GetUrlBinding(backoff) == IF backoff THEN "on_exception" ELSE "unset"

\* ------------------------------------------------------------ parameters
Keys == {"league_id", "skip"}
NoneVal == "None"
\* None, two falsy values that are not None, and a truthy value
Values == {NoneVal, "0", "", "x"}

EmptyItems == [k \in {} |-> NoneVal]
\* api_params = None
NoneParams == [none |-> TRUE, items |-> EmptyItems]
Mappings == UNION {[D -> Values] : D \in SUBSET Keys}
ParamInputs == {NoneParams} \cup {[none |-> FALSE, items |-> m] : m \in Mappings}

\* truth value of a dict or None
Truthy(p) == ~p.none /\ DOMAIN p.items # {}

\* a plausible slip: `if val` instead of `if val is not None`
FilterParamsTruthiness(p) ==
    IF Truthy(p)
    THEN [none |-> FALSE,
          items |-> [k \in {x \in DOMAIN p.items : p.items[x] \notin {NoneVal, "0", ""}}
                       |-> p.items[k]]]
    ELSE p

\* call_api: the dict comprehension under `if api_params:`
FilterParams(p) ==
    IF Truthy(p)
    THEN [none |-> FALSE,
          items |-> [k \in {x \in DOMAIN p.items : p.items[x] # NoneVal}
                       |-> p.items[k]]]
    ELSE p

\* ------------------------------------------------------------- responses
Statuses == {200, 404, 503}
NoResponse == [completed |-> FALSE, status |-> 0, json |-> FALSE]
Responses == [completed : {TRUE}, status : Statuses, json : BOOLEAN]

\* ----------------------------------------------------------- retry policy
\* backoff.expo(base=2, factor=1): the n-th value, n = 0, 1, ..., in ticks
ExpoConstant(n) == TicksPerSec

Expo(n) == (2 ^ n) * TicksPerSec

\* backoff.random_jitter adds random.random(), a value in [0, 1) seconds
Jitters == 0..(TicksPerSec - 1)

\* exception=(httpx.RequestError, httpx.HTTPStatusError)
RetryableAll == {"RequestError", "HTTPStatusError", "JSONDecodeError"}

Retryable == {"RequestError", "HTTPStatusError"}

\* retry_exception: max_time_exceeded, on the elapsed time read before the attempt
MaxTimeExceeded(el, max_time) == el >= max_time * TicksPerSec

Min(a, b) == IF a <= b THEN a ELSE b

\* _next_wait: jitter(value), then min(seconds, max_time - elapsed)
NextWait(n, j, el, max_time) == Min(Expo(n) + j, max_time * TicksPerSec - el)

\* a client that is closed only when the block ends without an exception
ClientExitOnSuccessOnly(n, raised) == IF raised THEN n ELSE n - 1

\* `with httpx.Client(...) as client:` leaves the block: __exit__ closes the client
ClientExit(n, raised) == n - 1

VARIABLES
    swc_backoff, backoff_max_time, bulk_file_format,  \* configuration fields
    BULK_FILE_NAMES, get_url,                          \* built by __init__
    pc, via, api_params, params, sent_params,
    open_clients, requests, response, result,
    clock, tries, elapsed, seconds,
    starts, waits, outcomes

config == <<swc_backoff, backoff_max_time, bulk_file_format, BULK_FILE_NAMES, get_url>>
call == <<pc, via, api_params, params, sent_params, open_clients, requests, response, result>>
retry == <<clock, tries, elapsed, seconds, starts, waits, outcomes>>
vars == <<config, call, retry>>

\* the fields of one invocation, before it starts
Fresh ==
    /\ pc = "idle"
    /\ via = "none"
    /\ api_params = NoneParams
    /\ params = NoneParams
    /\ sent_params = NoneParams
    /\ open_clients = 0
    /\ requests = 0
    /\ response = NoResponse
    /\ result = "none"
    /\ clock = 0
    /\ tries = 0
    /\ elapsed = 0
    /\ seconds = 0
    /\ starts = <<>>
    /\ waits = <<>>
    /\ outcomes = <<>>

\* SWCClient(input_config)
Init ==
    /\ swc_backoff \in BOOLEAN
    /\ backoff_max_time \in 1..MaxT
    /\ bulk_file_format \in Formats
    /\ BULK_FILE_NAMES = BulkFileNames(bulk_file_format)
    /\ get_url = GetUrlBinding(swc_backoff)
    /\ Fresh

\* ---------------------------------------------------------------- actions
\* How an attempt's outcome leaves the invocation path.  On call_api itself the
\* outcome goes to the caller.  On the wrapped path it is retry_exception's
\* `except exception` clause: give up when the time is exceeded, else draw the
\* next wait and sleep; anything else (a return, another exception) goes to
\* the caller.
After(exc) ==
    IF via = "get_url" /\ exc \in Retryable
                       /\ ~MaxTimeExceeded(elapsed, backoff_max_time)
    THEN \E j \in Jitters :
            /\ seconds' = NextWait(tries - 1, j, elapsed, backoff_max_time)
            /\ waits' = Append(waits, seconds')
            /\ pc' = "sleep"
            /\ result' = result
    ELSE /\ pc' = "done"
         /\ result' = exc
         /\ seconds' = seconds
         /\ waits' = waits

\* the caller calls client.call_api(api_endpoint, api_params)
InvokeCallApi ==
    /\ pc = "idle"
    /\ \E p \in ParamInputs : api_params' = p
    /\ via' = "call_api"
    /\ pc' = "call"
    /\ UNCHANGED <<config, params, sent_params, open_clients, requests,
                   response, result, retry>>

\* the caller calls client.get_url(api_endpoint, api_params): the attribute
\* lookup raises AttributeError when __init__ did not assign it
InvokeGetUrl ==
    /\ pc = "idle"
    /\ \E p \in ParamInputs : api_params' = p
    /\ via' = "get_url"
    /\ IF get_url = "unset"
       THEN pc' = "done" /\ result' = "AttributeError"
       ELSE pc' = "call" /\ result' = result
    /\ UNCHANGED <<config, params, sent_params, open_clients, requests,
                   response, retry>>

\* one attempt starts: on the wrapped path the loop top of retry_exception
\* (tries += 1, elapsed read), then call_api up to the `with` line: the
\* parameters are filtered and the client is opened
CallApi ==
    /\ pc = "call"
    /\ tries' = IF via = "get_url" THEN tries + 1 ELSE tries
    /\ elapsed' = IF via = "get_url" THEN clock ELSE elapsed
    /\ starts' = Append(starts, clock)
    /\ params' = FilterParams(api_params)
    /\ open_clients' = open_clients + 1
    /\ pc' = "client"
    /\ UNCHANGED <<config, via, api_params, sent_params, requests, response,
                   result, clock, seconds, waits, outcomes>>

\* client.get completes the exchange, with any status
GetResponse ==
    /\ pc = "client"
    /\ \E d \in 0..MaxDur, r \in Responses :
          /\ clock' = clock + d
          /\ response' = r
          /\ outcomes' = Append(outcomes, r)
    /\ requests' = requests + 1
    /\ sent_params' = params
    /\ pc' = "response"
    /\ UNCHANGED <<config, via, api_params, params, open_clients, result,
                   tries, elapsed, seconds, starts, waits>>

\* client.get raises a RequestError: the `with` block is left, the handler
\* logs and re-raises
GetRequestError ==
    /\ pc = "client"
    /\ \E d \in 0..MaxDur : clock' = clock + d
    /\ response' = NoResponse
    /\ outcomes' = Append(outcomes, NoResponse)
    /\ requests' = requests + 1
    /\ sent_params' = params
    /\ open_clients' = ClientExit(open_clients, TRUE)
    /\ After("RequestError")
    /\ UNCHANGED <<config, via, api_params, params, tries, elapsed, starts>>

\* logger.debug(f"Response JSON: {response.json()}") on a JSON body, then
\* `return response`
ReturnResponse ==
    /\ pc = "response"
    /\ response.json
    /\ open_clients' = ClientExit(open_clients, FALSE)
    /\ After("return")
    /\ UNCHANGED <<config, via, api_params, params, sent_params, requests,
                   response, clock, tries, elapsed, starts, outcomes>>

\* the f-string calls response.json() whatever the log level: on a body that
\* is not JSON it raises JSONDecodeError, which no handler of call_api catches
JsonDecodeError ==
    /\ pc = "response"
    /\ ~response.json
    /\ open_clients' = ClientExit(open_clients, TRUE)
    /\ After("JSONDecodeError")
    /\ UNCHANGED <<config, via, api_params, params, sent_params, requests,
                   response, clock, tries, elapsed, starts, outcomes>>

\* retry_exception: time.sleep(seconds), then the loop goes round
Sleep ==
    /\ pc = "sleep"
    /\ clock' = clock + seconds
    /\ pc' = "call"
    /\ UNCHANGED <<config, via, api_params, params, sent_params, open_clients,
                   requests, response, result, tries, elapsed, seconds,
                   starts, waits, outcomes>>

\* the invocation has ended; the client is used again
NextCall ==
    /\ pc = "done"
    /\ pc' = "idle"
    /\ via' = "none"
    /\ api_params' = NoneParams
    /\ params' = NoneParams
    /\ sent_params' = NoneParams
    /\ open_clients' = open_clients
    /\ requests' = 0
    /\ response' = NoResponse
    /\ result' = "none"
    /\ clock' = 0
    /\ tries' = 0
    /\ elapsed' = 0
    /\ seconds' = 0
    /\ starts' = <<>>
    /\ waits' = <<>>
    /\ outcomes' = <<>>
    /\ UNCHANGED config

Next ==
    \/ InvokeCallApi
    \/ InvokeGetUrl
    \/ CallApi
    \/ GetResponse
    \/ GetRequestError
    \/ ReturnResponse
    \/ JsonDecodeError
    \/ Sleep
    \/ NextCall

Spec == Init /\ [][Next]_vars

\* ----------------------------------------------------------------- claims
Failed(o) == ~o.completed \/ o.status >= 400
StatusErrors == {"HTTPStatusError"}
Errors == {"RequestError", "HTTPStatusError"}
MaxTicks == backoff_max_time * TicksPerSec

\* C1: a completed exchange with a 4xx or 5xx status ends call_api by raising a
\* status error to the caller, never by returning the response.
C1_StatusErrorRaised ==
    (pc = "done" /\ via = "call_api" /\ response.completed /\ response.status >= 400)
        => result \in StatusErrors

\* C2: with backoff disabled, an invocation whose first attempt fails with a
\* transport error or a failure status raises that error at once, after
\* exactly one HTTP attempt.
C2_NoBackoffRaisesAtOnce ==
    (~swc_backoff /\ pc = "done" /\ Len(outcomes) >= 1 /\ Failed(outcomes[1]))
        => /\ requests = 1
           /\ result = IF outcomes[1].completed THEN "HTTPStatusError"
                                                ELSE "RequestError"

\* C3: with backoff enabled, an invocation through get_url whose every attempt
\* fails with a transport error or a failure status ends only once the
\* elapsed time has reached backoff_max_time, and ends by raising the last
\* error.
C3_RetriesUntilTimeBound ==
    (swc_backoff /\ via = "get_url" /\ pc = "done" /\ Len(outcomes) >= 1
        /\ \A i \in 1..Len(outcomes) : Failed(outcomes[i]))
        => /\ result \in Errors
           /\ elapsed >= MaxTicks

C5_OtherErrorsNotRetried ==
    (swc_backoff /\ via = "get_url") =>
        \A i \in 1..Len(outcomes) :
            (outcomes[i].completed /\ ~outcomes[i].json)
                => /\ i = Len(outcomes)
                   /\ pc \in {"response", "done"}
                   /\ pc = "done" => (result = "JSONDecodeError" /\ requests = i)

\* a retried invocation whose second attempt got a body that is not JSON
C5_Witness ==
    /\ swc_backoff
    /\ via = "get_url"
    /\ pc = "done"
    /\ result = "JSONDecodeError"
    /\ requests = 2
    /\ clock < MaxTicks

\* C6: the parameters of the outgoing GET hold no key whose value is None and
\* hold every key whose value is not None, falsy or not, with its value.
C6_NoneParamsStripped ==
    requests > 0 =>
        /\ sent_params.none = api_params.none
        /\ \A k \in DOMAIN sent_params.items :
              /\ sent_params.items[k] # NoneVal
              /\ k \in DOMAIN api_params.items
        /\ \A k \in DOMAIN api_params.items :
              api_params.items[k] # NoneVal
                  => /\ k \in DOMAIN sent_params.items
                     /\ sent_params.items[k] = api_params.items[k]

\* a request sent for {"league_id": None, "skip": 0}
C6_Witness ==
    /\ requests > 0
    /\ ~api_params.none
    /\ DOMAIN api_params.items = Keys
    /\ api_params.items["league_id"] = NoneVal
    /\ api_params.items["skip"] = "0"
    /\ DOMAIN sent_params.items = {"skip"}

UPPER == <<"P","A","R","Q","U","E","T">>
\* "parquet" in any mix of cases
AnyCaseParquet(fmt) ==
    /\ Len(fmt) = 7
    /\ \A i \in 1..7 : fmt[i] \in {PARQUET[i], UPPER[i]}

\* C7: the bulk filename table has the five keys, each with its basename and
\* one extension, ".parquet" when the format is "parquet" in any case and
\* ".csv" otherwise, at construction and after every invocation.
C7_BulkFileNames ==
    LET ext == IF AnyCaseParquet(bulk_file_format) THEN ".parquet" ELSE ".csv"
    IN  BULK_FILE_NAMES =
            [ players      |-> <<"player_data", ext>>,
              leagues      |-> <<"league_data", ext>>,
              performances |-> <<"performance_data", ext>>,
              teams        |-> <<"team_data", ext>>,
              team_players |-> <<"team_player_data", ext>> ]

\* format "Parquet", after an invocation that made a request
C7_Witness ==
    /\ bulk_file_format = <<"P","a","r","q","u","e","t">>
    /\ BULK_FILE_NAMES["players"] = <<"player_data", ".parquet">>
    /\ pc = "done"
    /\ requests > 0

\* C8: a client is open only while an attempt is inside its `with` block:
\* none before the call, between retries or after the invocation has ended.
C8_ClientReleased ==
    /\ pc \in {"client", "response"} => open_clients = 1
    /\ pc \in {"idle", "call", "sleep", "done"} => open_clients = 0

\* between two attempts, after a transport error
C8_Witness ==
    /\ pc = "sleep"
    /\ requests >= 1
    /\ open_clients = 0

\* C9: a completed exchange is returned to the caller whatever its body holds.
C9_BodyNotParsed ==
    (pc = "done" /\ requests >= 1 /\ response.completed /\ response.status < 400)
        => result = "return"

\* C10: after construction get_url is usable whatever the configuration: an
\* invocation through it makes an attempt, one attempt when backoff is off.
C10_GetUrlUsable ==
    (pc = "done" /\ via = "get_url")
        => /\ result # "AttributeError"
           /\ requests >= 1
           /\ ~swc_backoff => requests = 1

====
